---- MODULE Spec2Model ----
(***************************************************************************)
(* Model of the MSMP JSON-RPC client of plugins/msmp_plugin.py             *)
(* (class MSMPClient): the reconnect loop _run, the receive loop           *)
(* _recv_loop, the public operations start, stop, on and call, and the     *)
(* server side of the socket as the environment.  asyncio runs one         *)
(* coroutine at a time and switches only at an await, so every action      *)
(* below is the code between two awaits.                                   *)
(***************************************************************************)
EXTENDS Integers, Sequences, FiniteSets, Bags, TLC

\* ---------------------------------------------------------------- bounds
MaxTasks == 2      \* _run tasks alive at the same time
MaxCalls == 2      \* call() invocations in one behaviour
MaxSubs == 2       \* on() registrations in one behaviour
MaxHTasks == 2     \* notification handler tasks running at the same time
MaxStarts == 2     \* start() calls counted before the first stop()
MaxLen == 2        \* length of a JSON list in a notification payload
MaxCmds == 3       \* whitelist commands in one behaviour

Tasks == 1..MaxTasks
Calls == 1..MaxCalls

\* A reference to a socket (self.ws, a local ws): None, a socket that is
\* closed (closed sockets never reopen, so they are all alike), or the open
\* socket of the _run task t.  Likewise a reference to a task: None, a task
\* that is done, or the live task t.
NoRef == 0
ClosedRef == -1
DoneRef == -1

\* ------------------------------------------------------------ JSON values
Methods == {"joined", "left"}
Handlers == {"h1", "h2"}
Results == {"r1"}
Errors == {"e1"}
ParamVals == {"p1"}
JsonNull == "null"
EmptyObj == "{}"

\* The JSON objects the server sends: responses (with an id) and
\* notifications (without), as functions from their keys to their values.
Responses ==
    {[id |-> i, result |-> r] : i \in Calls, r \in Results}
        \cup {[id |-> i, error |-> e] : i \in Calls, e \in Errors}
        \cup {[id |-> i] : i \in Calls}
Notifications ==
    {[method |-> m, params |-> p] : m \in Methods, p \in ParamVals}
        \cup {[method |-> m] : m \in Methods}
\* What arrives on the socket, before json.loads: text that is no JSON,
\* JSON that is no object (an array), or an object.
RawMessages ==
    {[kind |-> "invalid"], [kind |-> "array"]}
        \cup {[kind |-> "object", obj |-> o] : o \in Responses \cup Notifications}

\* ------------------------------------------------------------------ state
VARIABLES
    running,      \* self._running
    ws,           \* self.ws, a socket reference
    rid,          \* self._rid
    lock,         \* self._lock: the call holding it, or 0
    waiters,      \* self._lock's FIFO queue of waiting calls
    pending,      \* self._pending: id -> the call whose future it holds
    subs,         \* self._subs: method -> sequence of handlers
    readerTask,   \* self._reader_task, a task reference
    tpc,          \* per _run task: where it is
    sock,         \* per _run task: the state of the socket it made
    exc,          \* per _run task: an exception is propagating out of _recv_loop
    cpc,          \* per call: where it is
    crid,         \* per call: its local rid
    cws,          \* per call: the socket its send goes to
    fut,          \* per call: the state of its future
    cres,         \* per call: what call() returned or raised
    stopPc,       \* the stop() invocation: where it is
    stopTarget,   \* the socket stop() closes
    stopJoin,     \* the task stop() awaits
    htasks,       \* the handler tasks created and not yet finished (a bag)
    startCalls,   \* start() calls so far, while stop() was never called (else -1)
    limits,       \* how many _run tasks, call() and on() invocations this behaviour may have
    seen,         \* what the receive loops have done so far (a set of SeenEvents)
    params,       \* the payload a notification handler (_on_join, _on_left) is called with
    names,        \* what _extract_names returned to it
    xpc,          \* that handler: where it is
    USER_WHITELISTS,  \* user id -> the set of names recorded for the user
    dataFile,     \* the content of whitelist.json
    wpc,          \* per whitelist command: where its handler is
    wuser,        \* per whitelist command: str(event.user_id)
    wname,        \* per whitelist command: the name asked for
    wreply        \* per whitelist command: the message it finished with

connVars == <<running, ws, readerTask, tpc, sock, exc>>
callVars == <<rid, lock, waiters, pending, cpc, crid, cws, fut, cres>>
stopVars == <<stopPc, stopTarget, stopJoin>>
clientVars == <<connVars, callVars, subs, stopVars, htasks>>
\* The state of the plugin around the client: the notification handlers and
\* the whitelist command.
glueVars == <<params, names, xpc, USER_WHITELISTS, dataFile, wpc, wuser, wname, wreply>>
vars == <<running, ws, rid, lock, waiters, pending, subs, readerTask, tpc, sock,
          exc, cpc, crid, cws, fut, cres, stopPc, stopTarget, stopJoin,
          htasks, startCalls, limits, seen, glueVars>>

\* Future states (asyncio.Future): pending, cancelled, a result, an exception.
FutNone == [st |-> "none", val |-> "-"]
FutPending == [st |-> "pending", val |-> "-"]
FutCancelled == [st |-> "cancelled", val |-> "-"]
FutResult(v) == [st |-> "result", val |-> v]
FutRuntimeError(e) == [st |-> "RuntimeError", val |-> e]
FutConnectionClosed == [st |-> "ConnectionClosed", val |-> "1006 reconnecting"]
FutDone(f) == f.st \notin {"none", "pending"}

ResNone == [st |-> "none", val |-> "-"]
ResTimeout == [st |-> "Timeout", val |-> "-"]
ResSendClosed == [st |-> "ConnectionClosed", val |-> "send"]

InitClient ==
    /\ running = FALSE
    /\ ws = NoRef
    /\ rid = 0
    /\ lock = 0
    /\ waiters = <<>>
    /\ pending = <<>>
    /\ subs = [m \in Methods |-> <<>>]
    /\ readerTask = NoRef
    /\ tpc = [t \in Tasks |-> "none"]
    /\ sock = [t \in Tasks |-> "none"]
    /\ exc = [t \in Tasks |-> FALSE]
    /\ cpc = [c \in Calls |-> "wait_ready"]
    /\ crid = [c \in Calls |-> 0]
    /\ cws = [c \in Calls |-> NoRef]
    /\ fut = [c \in Calls |-> FutNone]
    /\ cres = [c \in Calls |-> ResNone]
    /\ stopPc = "idle"
    /\ stopTarget = NoRef
    /\ stopJoin = NoRef
    /\ htasks = EmptyBag
    /\ startCalls = 0
    /\ seen = {}

\* ---------------------------------------------------- the plugin's state
\* A JSON value as json.loads gives it to Python: a record with one field,
\* named after its type, that holds its content.
JNone == [null |-> TRUE]
JNum(n) == [num |-> n]
JStr(str) == [str |-> str]
JList(seq) == [list |-> seq]
JDict(f) == [dict |-> f]
IsStr(j) == DOMAIN j = {"str"}
IsList(j) == DOMAIN j = {"list"}
IsDict(j) == DOMAIN j = {"dict"}

Cmds == 1..MaxCmds
Users == {"u1", "u2"}
McNames == {"a", "b", "c"}
NoArg == ""
NoFile == [present |-> FALSE, raw |-> <<>>]

\* No handler has run, USER_WHITELISTS is empty (line 26, and lines 139-141
\* when there is no whitelist.json at startup).
InitGlue ==
    /\ params = JNone
    /\ names = <<>>
    /\ xpc = "idle"
    /\ USER_WHITELISTS = <<>>
    /\ dataFile = NoFile
    /\ wpc = [w \in Cmds |-> "idle"]
    /\ wuser = [w \in Cmds |-> ""]
    /\ wname = [w \in Cmds |-> NoArg]
    /\ wreply = [w \in Cmds |-> ""]

\* The behaviours explored.  Without a start() that overlaps a stop() there
\* is one _run task: many calls, many handlers, and a call with a handler.
\* With every overlap of start() and stop(): one call, or one handler.
\* watch names the events of the past a behaviour keeps in seen.
Scenarios ==
    {[tasks |-> 1, calls |-> MaxCalls, subs |-> 0, watch |-> {"late"}],
     [tasks |-> 1, calls |-> 0, subs |-> MaxSubs, watch |-> {"drop", "later"}],
     [tasks |-> 1, calls |-> 1, subs |-> 1, watch |-> {"busy"}],
     [tasks |-> MaxTasks, calls |-> 1, subs |-> 0, watch |-> {}],
     [tasks |-> MaxTasks, calls |-> 0, subs |-> 1, watch |-> {}]}

Init ==
    /\ InitClient
    /\ InitGlue
    /\ limits \in Scenarios

\* ------------------------------------------------------------- references
\* A socket of task t has closed: every reference to it now refers to a
\* closed socket.
CloseRef(r, t) == IF r = t THEN ClosedRef ELSE r

CloseSocketRefs(t) ==
    /\ ws' = CloseRef(ws, t)
    /\ cws' = [c \in Calls |-> CloseRef(cws[c], t)]
    /\ stopTarget' = CloseRef(stopTarget, t)

LiveTasks == {t \in Tasks : tpc[t] # "none"}
OpenSockets == {t \in Tasks : sock[t] = "open"}

\* ------------------------------------------------------------------ start
\* StartGuarded as it would be without the test of line 49.
StartUnguarded ==
    \E t \in Tasks :
        /\ tpc[t] = "none"
        /\ t <= limits.tasks
        /\ \A u \in Tasks : u < t => tpc[u] # "none"
        /\ running' = TRUE
        /\ readerTask' = t
        /\ tpc' = [tpc EXCEPT ![t] = "created"]

\* start(): no-op while running, else set the flag and create the _run task.
StartGuarded ==
    IF running
    THEN UNCHANGED <<running, readerTask, tpc>>
    ELSE \E t \in Tasks :
            /\ tpc[t] = "none"
            /\ t <= limits.tasks
            /\ \A u \in Tasks : u < t => tpc[u] # "none"
            /\ running' = TRUE
            /\ readerTask' = t
            /\ tpc' = [tpc EXCEPT ![t] = "created"]

Start ==
    /\ StartGuarded
    /\ startCalls' = IF startCalls \in 0..(MaxStarts - 1) THEN startCalls + 1
                     ELSE startCalls
    /\ UNCHANGED <<ws, sock, exc, callVars, subs, stopVars, htasks, limits, seen, glueVars>>

\* ------------------------------------------------------------------- stop
\* "if self._reader_task: await self._reader_task": awaiting a task that is
\* done returns at once.
StopAwaitReader ==
    IF readerTask \in Tasks
    THEN stopPc' = "joining" /\ stopJoin' = readerTask
    ELSE stopPc' = "idle" /\ stopJoin' = NoRef

\* stop() up to its first await: clear the flag, start closing self.ws.
Stop ==
    /\ stopPc = "idle"
    /\ running' = FALSE
    /\ startCalls' = -1
    /\ IF ws # NoRef
       THEN stopPc' = "closing" /\ stopTarget' = ws /\ UNCHANGED stopJoin
       ELSE StopAwaitReader /\ UNCHANGED stopTarget
    /\ UNCHANGED <<ws, readerTask, tpc, sock, exc, callVars, subs, htasks, limits, seen, glueVars>>

\* ws.close() closes the socket stop() took from self.ws.
StopClosing ==
    /\ stopPc = "closing"
    /\ stopTarget \in Tasks
    /\ sock' = [sock EXCEPT ![stopTarget] = "closed_ok"]
    /\ CloseSocketRefs(stopTarget)
    /\ UNCHANGED <<running, readerTask, tpc, exc, rid, lock, waiters, pending,
                   cpc, crid, fut, cres, subs, stopPc, stopJoin, htasks, startCalls, limits, seen, glueVars>>

\* ws.close() returns once the socket is closed; stop() goes on to line 58.
StopCloseReturn ==
    /\ stopPc = "closing"
    /\ stopTarget = ClosedRef
    /\ StopAwaitReader
    /\ stopTarget' = NoRef
    /\ UNCHANGED <<connVars, callVars, subs, htasks, startCalls, limits, seen, glueVars>>

\* The awaited _run task is done: stop() returns.
StopJoinReturn ==
    /\ stopPc = "joining"
    /\ stopJoin = DoneRef
    /\ stopPc' = "idle"
    /\ stopJoin' = NoRef
    /\ UNCHANGED <<connVars, callVars, subs, stopTarget, htasks, startCalls, limits, seen, glueVars>>

\* ------------------------------------------------------------------- _run
\* The test of "while self._running" (line 82): go on to connect(), or
\* leave the loop, which ends the task.
RunLoopTest(t) ==
    IF running
    THEN /\ tpc' = [tpc EXCEPT ![t] = "connecting"]
         /\ UNCHANGED <<readerTask, stopJoin>>
    ELSE /\ tpc' = [tpc EXCEPT ![t] = "none"]
         /\ readerTask' = IF readerTask = t THEN DoneRef ELSE readerTask
         /\ stopJoin' = IF stopJoin = t THEN DoneRef ELSE stopJoin

\* The task created by start() begins to run.
RunBegin(t) ==
    /\ tpc[t] = "created"
    /\ RunLoopTest(t)
    /\ UNCHANGED <<running, ws, sock, exc, callVars, subs, stopPc, stopTarget,
                   htasks, startCalls, limits, seen, glueVars>>

\* ConnectOk as it would be if a new connection started the ids afresh.
ConnectOkResetRid(t) ==
    /\ tpc[t] = "connecting"
    /\ sock' = [sock EXCEPT ![t] = "open"]
    /\ ws' = t
    /\ tpc' = [tpc EXCEPT ![t] = "recv"]
    /\ rid' = 0
    /\ UNCHANGED <<running, readerTask, exc, lock, waiters, pending, cpc, crid, cws, fut,
                   cres, subs, stopVars, htasks, startCalls, limits, seen, glueVars>>

\* connect() succeeds: "self.ws = ws", then _recv_loop(ws) waits for a message.
ConnectOk(t) ==
    /\ tpc[t] = "connecting"
    /\ sock' = [sock EXCEPT ![t] = "open"]
    /\ ws' = t
    /\ tpc' = [tpc EXCEPT ![t] = "recv"]
    /\ UNCHANGED <<running, readerTask, exc, callVars, subs, stopVars, htasks,
                   startCalls, limits, seen, glueVars>>

\* RunOnException as it would be without the try around the connection: the
\* exception ends the task.
RunOnExceptionGiveUp(t) == tpc' = [tpc EXCEPT ![t] = "none"]

\* What _run does with an exception (lines 92-93): asyncio.sleep(3.0).
RunOnException(t) == tpc' = [tpc EXCEPT ![t] = "sleep"]

\* connect() raises (handshake error, refused, timeout).
ConnectFail(t) ==
    /\ tpc[t] = "connecting"
    /\ RunOnException(t)
    /\ UNCHANGED <<running, ws, readerTask, sock, exc, callVars, subs, stopVars,
                   htasks, startCalls, limits, seen, glueVars>>

\* asyncio.sleep(3.0) is over: back to the loop test.
SleepDone(t) ==
    /\ tpc[t] = "sleep"
    /\ RunLoopTest(t)
    /\ UNCHANGED <<running, ws, sock, exc, callVars, subs, stopPc, stopTarget,
                   htasks, startCalls, limits, seen, glueVars>>

\* The connection of task t ends under the receive loop: the server closes
\* it in order ("closed_ok", code 1000), or it breaks ("closed_err", 1006).
SocketClose(t, how) ==
    /\ tpc[t] = "recv"
    /\ sock[t] = "open"
    /\ sock' = [sock EXCEPT ![t] = how]
    /\ CloseSocketRefs(t)
    /\ UNCHANGED <<running, readerTask, tpc, exc, rid, lock, waiters, pending,
                   cpc, crid, fut, cres, subs, stopPc, stopJoin, htasks, startCalls, limits, seen, glueVars>>

\* ------------------------------------------------------------ _recv_loop
Get(msg, k, default) == IF k \in DOMAIN msg THEN msg[k] ELSE default

\* json.loads(raw) raises JSONDecodeError on text that is no JSON.
JsonLoadsRaises(raw) == raw.kind = "invalid"
\* A JSON array (without the element "id") passes the test of line 99 as
\* "no id" and has no method get: line 107 raises AttributeError.
DispatchRaises(raw) == raw.kind = "array"

\* RecvFinally as it would be if it cleared the table without failing the
\* futures.
RecvFinallyClearOnly ==
    /\ fut' = fut
    /\ pending' = <<>>

\* The finally clause (lines 113-117): every future of the table that is
\* not done gets ConnectionClosed, and the table is cleared.
RecvFinally ==
    /\ fut' = [c \in Calls |->
                 IF (\E k \in DOMAIN pending : pending[k] = c) /\ ~FutDone(fut[c])
                 THEN FutConnectionClosed ELSE fut[c]]
    /\ pending' = <<>>

\* HandleResponse as it would be with "get" for "pop": the entry stays.
HandleResponseKeepEntry(msg) ==
    IF msg.id \in DOMAIN pending
    THEN LET c == pending[msg.id] IN
         /\ pending' = pending
         /\ fut' = IF ~FutDone(fut[c])
                   THEN [fut EXCEPT ![c] =
                           IF "error" \in DOMAIN msg
                           THEN FutRuntimeError(msg.error)
                           ELSE FutResult(Get(msg, "result", JsonNull))]
                   ELSE fut
    ELSE UNCHANGED <<pending, fut>>

\* HandleResponse as it would be without the test "not fut.done()" of line
\* 101: the response is written into the future whatever its state.
HandleResponseSetAnyway(msg) ==
    IF msg.id \in DOMAIN pending
    THEN LET c == pending[msg.id] IN
         /\ pending' = [k \in DOMAIN pending \ {msg.id} |-> pending[k]]
         /\ fut' = [fut EXCEPT ![c] =
                      IF "error" \in DOMAIN msg
                      THEN FutRuntimeError(msg.error)
                      ELSE FutResult(Get(msg, "result", JsonNull))]
    ELSE UNCHANGED <<pending, fut>>

\* A message with an id (lines 100-105).
HandleResponse(msg) ==
    IF msg.id \in DOMAIN pending
    THEN LET c == pending[msg.id] IN
         /\ pending' = [k \in DOMAIN pending \ {msg.id} |-> pending[k]]
         /\ fut' = IF ~FutDone(fut[c])
                   THEN [fut EXCEPT ![c] =
                           IF "error" \in DOMAIN msg
                           THEN FutRuntimeError(msg.error)
                           ELSE FutResult(Get(msg, "result", JsonNull))]
                   ELSE fut
    ELSE UNCHANGED <<pending, fut>>

\* SubsGet as it would be if the handlers were tied to the connection they
\* were registered on: none is left after a receive loop has ended.
SubsGetForgetful(m) ==
    IF m \in DOMAIN subs /\ "drop" \notin seen THEN subs[m] ELSE <<>>

SubsGet(m) == IF m \in DOMAIN subs THEN subs[m] ELSE <<>>

\* Spawned as it would be if the loop over the handlers ended after the
\* first one.
SpawnedFirstOnly(msg) ==
    LET hs == SubsGet(Get(msg, "method", ""))
        ps == Get(msg, "params", EmptyObj)
    IN IF hs = <<>> THEN EmptyBag ELSE SetToBag({[cb |-> hs[1], params |-> ps]})

\* The handler tasks one notification creates (lines 107-110): one per entry
\* of the method's handler list, each called with the params.
Spawned(msg) ==
    LET hs == SubsGet(Get(msg, "method", ""))
        ps == Get(msg, "params", EmptyObj)
    IN [e \in {[cb |-> hs[i], params |-> ps] : i \in DOMAIN hs} |->
          Cardinality({i \in DOMAIN hs : hs[i] = e.cb})]

\* HandleNotification as it would be with "await cb(params)" for
\* "asyncio.create_task(cb(params))": the loop takes no notification while a
\* handler runs.
HandleNotificationAwaited(msg) ==
    /\ htasks = EmptyBag
    /\ htasks' = htasks (+) Spawned(msg)

HandleNotification(msg) == htasks' = htasks (+) Spawned(msg)

\* What is kept of the past of the receive loops, for the properties that
\* speak of it: "drop", a receive loop ended while a handler was registered;
\* "later", a notification for a method with a handler came after that;
\* "late", a response arrived for an entry whose future was done (its call
\* had timed out); "busy", a response completed a future while a handler
\* task was running.
SeenEvents == {"drop", "later", "late", "busy"}

SeenAtExit ==
    seen \cup (limits.watch \cap
        (IF \E m \in DOMAIN subs : subs[m] # <<>> THEN {"drop"} ELSE {}))

SeenAtMessage(msg) ==
    seen \cup (limits.watch \cap
        (IF "id" \in DOMAIN msg
         THEN IF msg.id \notin DOMAIN pending THEN {}
              ELSE IF FutDone(fut[pending[msg.id]]) THEN {"late"}
              ELSE IF htasks # EmptyBag THEN {"busy"} ELSE {}
         ELSE IF /\ "drop" \in seen
                 /\ Get(msg, "method", "") \in DOMAIN subs
                 /\ subs[Get(msg, "method", "")] # <<>>
              THEN {"later"} ELSE {}))

\* One turn of "async for raw in ws" (lines 97-110) on the message raw the
\* server sent (a message that arrived before the connection closed is still
\* handed out).  An exception leaves the loop through the finally clause and
\* goes on into _run.
RecvMessage(t, raw) ==
    /\ tpc[t] = "recv"
    /\ UNCHANGED <<running, ws, readerTask, sock, rid, lock, waiters, cpc, crid, cws,
                   cres, subs, stopVars, startCalls, limits, glueVars>>
    /\ IF JsonLoadsRaises(raw) \/ DispatchRaises(raw)
       THEN /\ RecvFinally
            /\ tpc' = [tpc EXCEPT ![t] = "aexit"]
            /\ exc' = [exc EXCEPT ![t] = TRUE]
            /\ seen' = SeenAtExit
            /\ UNCHANGED htasks
       ELSE /\ IF "id" \in DOMAIN raw.obj
               THEN HandleResponse(raw.obj) /\ UNCHANGED htasks
               ELSE /\ BagCardinality(htasks (+) Spawned(raw.obj)) <= MaxHTasks
                    /\ HandleNotification(raw.obj)
                    /\ UNCHANGED <<pending, fut>>
            /\ seen' = SeenAtMessage(raw.obj)
            /\ UNCHANGED <<tpc, exc>>

\* The iteration ends on a closed connection: it stops on ConnectionClosedOK,
\* and ConnectionClosedError is caught at line 111.  Then the finally clause.
RecvLoopExit(t) ==
    /\ tpc[t] = "recv"
    /\ sock[t] \in {"closed_ok", "closed_err"}
    /\ RecvFinally
    /\ tpc' = [tpc EXCEPT ![t] = "aexit"]
    /\ exc' = [exc EXCEPT ![t] = FALSE]
    /\ seen' = SeenAtExit
    /\ UNCHANGED <<running, ws, readerTask, sock, rid, lock, waiters, cpc, crid,
                   cws, cres, subs, stopVars, htasks, startCalls, limits, glueVars>>

\* The end of "async with connect(...)" (line 89): the socket is closed, and
\* _run goes to its except clause or back to the loop test.
AexitDone(t) ==
    /\ tpc[t] = "aexit"
    /\ sock' = [sock EXCEPT ![t] = "none"]
    /\ CloseSocketRefs(t)
    /\ exc' = [exc EXCEPT ![t] = FALSE]
    /\ IF exc[t]
       THEN RunOnException(t) /\ UNCHANGED <<readerTask, stopJoin>>
       ELSE RunLoopTest(t)
    /\ UNCHANGED <<running, rid, lock, waiters, pending, cpc, crid, fut, cres,
                   subs, stopPc, htasks, startCalls, limits, seen, glueVars>>

\* A handler task runs to its end: it returns, or it raises and the task
\* keeps the exception, which nobody awaits.
HandlerDone(h) ==
    /\ BagIn(h, htasks)
    /\ htasks' = htasks (-) SetToBag({h})
    /\ UNCHANGED <<connVars, callVars, subs, stopVars, startCalls, limits, seen, glueVars>>

\* --------------------------------------------------------------------- on
RECURSIVE SumLen(_, _)
SumLen(f, S) ==
    IF S = {} THEN 0
    ELSE LET m == CHOOSE x \in S : TRUE IN Len(f[m]) + SumLen(f, S \ {m})

\* on(notif_method, handler) (line 62).
On(m, h) ==
    /\ SumLen(subs, DOMAIN subs) < limits.subs
    /\ subs' = [subs EXCEPT ![m] = Append(@, h)]
    /\ UNCHANGED <<connVars, callVars, stopVars, htasks, startCalls, limits, seen, glueVars>>

\* ------------------------------------------------------------------- call
NextRid(r) == r + 1

\* Lines 67-74 up to the await of ws.send: under the lock, take the next id,
\* register the future, build the request for the socket self.ws names now.
CallCommit(c) ==
    /\ lock' = c
    /\ rid' = NextRid(rid)
    /\ crid' = [crid EXCEPT ![c] = rid']
    /\ fut' = [fut EXCEPT ![c] = FutPending]
    /\ pending' = [k \in DOMAIN pending \cup {rid'} |->
                     IF k = rid' THEN c ELSE pending[k]]
    /\ cws' = [cws EXCEPT ![c] = ws]
    /\ cpc' = [cpc EXCEPT ![c] = "send"]

\* CallReady as it would be without "async with self._lock": the call goes
\* on whether or not another call is between its id and the end of its send.
CallReadyNoLock(c) ==
    /\ cpc[c] = "wait_ready"
    /\ c <= limits.calls
    /\ \A d \in Calls : d < c => cpc[d] # "wait_ready"
    /\ ws \in Tasks
    /\ CallCommit(c)
    /\ UNCHANGED <<waiters, connVars, cres, subs, stopVars, htasks, startCalls, limits,
                   seen, glueVars>>

\* _wait_ready returns (line 78: self.ws is set and not closed) and the call
\* goes for the lock: it gets a free lock nobody waits for at once.  Calls
\* are numbered in the order in which they pass _wait_ready.
CallReady(c) ==
    /\ cpc[c] = "wait_ready"
    /\ c <= limits.calls
    /\ \A d \in Calls : d < c => cpc[d] # "wait_ready"
    /\ ws \in Tasks
    /\ IF lock = 0 /\ waiters = <<>>
       THEN CallCommit(c) /\ UNCHANGED waiters
       ELSE /\ waiters' = Append(waiters, c)
            /\ cpc' = [cpc EXCEPT ![c] = "wait_lock"]
            /\ UNCHANGED <<rid, lock, pending, crid, cws, fut>>
    /\ UNCHANGED <<connVars, cres, subs, stopVars, htasks, startCalls, limits, seen, glueVars>>

\* The lock is released to the call that waited longest.
CallAcquire(c) ==
    /\ cpc[c] = "wait_lock"
    /\ lock = 0
    /\ Head(waiters) = c
    /\ waiters' = Tail(waiters)
    /\ CallCommit(c)
    /\ UNCHANGED <<connVars, cres, subs, stopVars, htasks, startCalls, limits, seen, glueVars>>

\* ws.send wrote the request; the lock is released, the call awaits its future.
SendOk(c) ==
    /\ cpc[c] = "send"
    /\ cws[c] \in Tasks
    /\ lock' = 0
    /\ cpc' = [cpc EXCEPT ![c] = "await"]
    /\ UNCHANGED <<connVars, rid, waiters, pending, crid, cws, fut, cres, subs, stopVars,
                   htasks, startCalls, limits, seen, glueVars>>

\* ws.send raises ConnectionClosed on a closed socket: call() raises it.
SendFail(c) ==
    /\ cpc[c] = "send"
    /\ cws[c] = ClosedRef
    /\ lock' = 0
    /\ cpc' = [cpc EXCEPT ![c] = "done"]
    /\ cres' = [cres EXCEPT ![c] = ResSendClosed]
    /\ UNCHANGED <<connVars, rid, waiters, pending, crid, cws, fut, subs, stopVars,
                   htasks, startCalls, limits, seen, glueVars>>

\* What a timeout does to the table of pending requests (line 75: nothing).
TimeoutCleanup(c) == UNCHANGED pending

\* asyncio.wait_for runs out (line 75): it cancels the future and raises.
CallTimeout(c) ==
    /\ cpc[c] = "await"
    /\ ~FutDone(fut[c])
    /\ fut' = [fut EXCEPT ![c] = FutCancelled]
    /\ cpc' = [cpc EXCEPT ![c] = "done"]
    /\ cres' = [cres EXCEPT ![c] = ResTimeout]
    /\ TimeoutCleanup(c)
    /\ UNCHANGED <<connVars, rid, lock, waiters, crid, cws, subs, stopVars, htasks,
                   startCalls, limits, seen, glueVars>>

\* The future is done: call() returns its result or raises its exception.
CallReturn(c) ==
    /\ cpc[c] = "await"
    /\ FutDone(fut[c])
    /\ cpc' = [cpc EXCEPT ![c] = "done"]
    /\ cres' = [cres EXCEPT ![c] = fut[c]]
    /\ UNCHANGED <<connVars, rid, lock, waiters, pending, crid, cws, fut, subs, stopVars,
                   htasks, startCalls, limits, seen, glueVars>>

\* -------------------------------------------------------- _extract_names
\* Python's truth of a JSON value ("if n").
Truthy(j) ==
    CASE DOMAIN j = {"null"} -> FALSE
      [] DOMAIN j = {"num"} -> j.num # 0
      [] IsStr(j) -> j.str # ""
      [] IsList(j) -> j.list # <<>>
      [] IsDict(j) -> DOMAIN j.dict # {}

\* d.get(k) and "k in d" of a dict d.
DictGet(d, k) == IF k \in DOMAIN d.dict THEN d.dict[k] ELSE JNone
In(k, d) == k \in DOMAIN d.dict

\* Lines 169-171: the name of params["player"], when it is there and true.
NamesOfPlayer(d) ==
    IF In("player", d) /\ IsDict(d.dict["player"])
    THEN LET n == DictGet(d.dict["player"], "name") IN IF Truthy(n) THEN <<n>> ELSE <<>>
    ELSE <<>>

\* Lines 173-175: the names of the dicts of the list that have one.
RECURSIVE NamesOfPlayers(_)
NamesOfPlayers(seq) ==
    IF seq = <<>> THEN <<>>
    ELSE LET p == Head(seq) IN
         (IF IsDict(p) /\ In("name", p) THEN <<p.dict["name"]>> ELSE <<>>)
            \o NamesOfPlayers(Tail(seq))

\* Lines 177-182: of each dict of the list its name, else its player's name.
RECURSIVE NamesOfItems(_)
NamesOfItems(seq) ==
    IF seq = <<>> THEN <<>>
    ELSE LET p == Head(seq) IN
         (IF ~IsDict(p) THEN <<>>
          ELSE IF In("name", p) THEN <<p.dict["name"]>>
          ELSE IF /\ In("player", p)
                  /\ IsDict(p.dict["player"])
                  /\ In("name", p.dict["player"])
               THEN <<p.dict["player"].dict["name"]>>
               ELSE <<>>)
            \o NamesOfItems(Tail(seq))

Unknown == <<JStr("Unknown")>>

_extract_names(pl) ==
    LET found ==
            IF IsDict(pl)
            THEN NamesOfPlayer(pl) \o
                 (IF In("players", pl) /\ IsList(pl.dict["players"])
                  THEN NamesOfPlayers(pl.dict["players"].list) ELSE <<>>)
            ELSE IF IsList(pl) THEN NamesOfItems(pl.list)
            ELSE IF IsStr(pl) THEN <<pl>>
            ELSE <<>>
    IN IF found # <<>> THEN found ELSE Unknown

\* The payloads a handler is called with: the names a server may send, the
\* player objects, the items of a list, the lists and the objects.
NameVals == {JStr(""), JStr("Dan"), JStr("Eve")}
PlayerObjs == {JDict([name |-> n]) : n \in NameVals} \cup {JDict([id |-> JStr("u-1")])}
Items == PlayerObjs \cup {JDict([player |-> p]) : p \in PlayerObjs} \cup {JStr("Dan")}
Lists == UNION {[1..n -> Items] : n \in 0..MaxLen}
Payloads ==
    NameVals \cup {JNone, JNum(7), JDict(<<>>)}
        \cup {JList(seq) : seq \in Lists}
        \cup {JDict([player |-> p]) : p \in PlayerObjs \cup {JStr("Dan")}}
        \cup {JDict([players |-> q]) : q \in {JList(seq) : seq \in Lists} \cup {JStr("Dan")}}
        \cup {JDict([player |-> p, players |-> JList(seq)]) : p \in PlayerObjs, seq \in Lists}

\* _on_join and _on_left (lines 187-193) start by calling _extract_names on
\* what they were given.
OnNotify ==
    /\ xpc = "idle"
    /\ names' = _extract_names(params)
    /\ xpc' = "named"
    /\ UNCHANGED <<clientVars, startCalls, limits, seen, params, USER_WHITELISTS,
                   dataFile, wpc, wuser, wname, wreply>>

\* The handler has announced the names and ends.
OnNotifyDone ==
    /\ xpc = "named"
    /\ xpc' = "done"
    /\ UNCHANGED <<clientVars, startCalls, limits, seen, params, names, USER_WHITELISTS,
                   dataFile, wpc, wuser, wname, wreply>>

\* ------------------------------------------------------ whitelist command
WHITELIST_LIMIT == 2

\* USER_WHITELISTS.setdefault(user_id, set()).
Setdefault(d, k) ==
    IF k \in DOMAIN d THEN d
    ELSE [x \in DOMAIN d \cup {k} |-> IF x = k THEN {} ELSE d[x]]

\* save_whitelist_data(): the file holds the names of every user.
SaveWhitelistData(d) == [present |-> TRUE, raw |-> d]

\* The handler up to its first await (lines 216-240): with no name, a name
\* the user has already, or a full quota, it answers and ends; else it calls
\* the server.  Commands are numbered in the order in which they come.
WhitelistCmd(w, user_id, arg) ==
    /\ wpc[w] = "idle"
    /\ \A d \in Cmds : d < w => wpc[d] # "idle"
    /\ wuser' = [wuser EXCEPT ![w] = user_id]
    /\ wname' = [wname EXCEPT ![w] = arg]
    /\ IF arg = NoArg
       THEN /\ wreply' = [wreply EXCEPT ![w] = "usage"]
            /\ wpc' = [wpc EXCEPT ![w] = "done"]
            /\ UNCHANGED USER_WHITELISTS
       ELSE LET used == Setdefault(USER_WHITELISTS, user_id)[user_id] IN
            /\ USER_WHITELISTS' = Setdefault(USER_WHITELISTS, user_id)
            /\ IF arg \in used
               THEN /\ wreply' = [wreply EXCEPT ![w] = "already"]
                    /\ wpc' = [wpc EXCEPT ![w] = "done"]
               ELSE IF Cardinality(used) >= WHITELIST_LIMIT
               THEN /\ wreply' = [wreply EXCEPT ![w] = "quota"]
                    /\ wpc' = [wpc EXCEPT ![w] = "done"]
               ELSE /\ wpc' = [wpc EXCEPT ![w] = "calling"]
                    /\ UNCHANGED wreply
    /\ UNCHANGED <<clientVars, startCalls, limits, seen, params, names, xpc, dataFile>>

\* msmp.call("minecraft:allowlist/add", ...) raises (lines 241-242).
WhitelistCallRaises(w) ==
    /\ wpc[w] = "calling"
    /\ wreply' = [wreply EXCEPT ![w] = "failed"]
    /\ wpc' = [wpc EXCEPT ![w] = "done"]
    /\ UNCHANGED <<clientVars, startCalls, limits, seen, params, names, xpc,
                   USER_WHITELISTS, dataFile, wuser, wname>>

\* msmp.call returns (lines 245-248): the name is added to the set the
\* handler took before the call, and the file is written.
WhitelistCallReturns(w) ==
    /\ wpc[w] = "calling"
    /\ USER_WHITELISTS' = [USER_WHITELISTS EXCEPT ![wuser[w]] = @ \cup {wname[w]}]
    /\ dataFile' = SaveWhitelistData(USER_WHITELISTS')
    /\ wreply' = [wreply EXCEPT ![w] = "added"]
    /\ wpc' = [wpc EXCEPT ![w] = "done"]
    /\ UNCHANGED <<clientVars, startCalls, limits, seen, params, names, xpc, wuser, wname>>

\* ---------------------------------------------------------- specification
Next ==
    \/ Start
    \/ Stop
    \/ StopClosing
    \/ StopCloseReturn
    \/ StopJoinReturn
    \/ \E t \in Tasks : RunBegin(t)
    \/ \E t \in Tasks : ConnectOk(t)
    \/ \E t \in Tasks : ConnectFail(t)
    \/ \E t \in Tasks : SleepDone(t)
    \/ \E t \in Tasks, how \in {"closed_ok", "closed_err"} : SocketClose(t, how)
    \/ \E t \in Tasks, raw \in RawMessages : RecvMessage(t, raw)
    \/ \E t \in Tasks : RecvLoopExit(t)
    \/ \E t \in Tasks : AexitDone(t)
    \/ \E h \in DOMAIN htasks : HandlerDone(h)
    \/ \E m \in Methods, h \in Handlers : On(m, h)
    \/ \E c \in Calls : CallReady(c)
    \/ \E c \in Calls : CallAcquire(c)
    \/ \E c \in Calls : SendOk(c)
    \/ \E c \in Calls : SendFail(c)
    \/ \E c \in Calls : CallTimeout(c)
    \/ \E c \in Calls : CallReturn(c)

Spec == Init /\ [][Next]_vars

\* The connection manager alone, under the scheduling asyncio guarantees: a
\* task that can run does run, connect() and sleep() and close() come to an
\* end.  What the server and the callers of start() and stop() do is free.
InitLife ==
    /\ InitClient
    /\ InitGlue
    /\ limits = [tasks |-> MaxTasks, calls |-> 0, subs |-> 0, watch |-> {}]

NextLife ==
    \/ Start
    \/ Stop
    \/ StopClosing
    \/ StopCloseReturn
    \/ StopJoinReturn
    \/ \E t \in Tasks : RunBegin(t)
    \/ \E t \in Tasks : ConnectOk(t)
    \/ \E t \in Tasks : ConnectFail(t)
    \/ \E t \in Tasks : SleepDone(t)
    \/ \E t \in Tasks, how \in {"closed_ok", "closed_err"} : SocketClose(t, how)
    \/ \E t \in Tasks, raw \in RawMessages : RecvMessage(t, raw)
    \/ \E t \in Tasks : RecvLoopExit(t)
    \/ \E t \in Tasks : AexitDone(t)

LifeFairness ==
    /\ WF_vars(StopClosing)
    /\ WF_vars(StopCloseReturn)
    /\ WF_vars(StopJoinReturn)
    /\ \A t \in Tasks :
        /\ WF_vars(RunBegin(t))
        /\ WF_vars(ConnectOk(t) \/ ConnectFail(t))
        /\ WF_vars(SleepDone(t))
        /\ WF_vars(RecvLoopExit(t))
        /\ WF_vars(AexitDone(t))

FairLife == InitLife /\ [][NextLife]_vars /\ LifeFairness

\* A notification handler alone, called with any payload.
NoClient == [tasks |-> 0, calls |-> 0, subs |-> 0, watch |-> {}]

InitExtract ==
    /\ InitClient
    /\ limits = NoClient
    /\ params \in Payloads
    /\ names = <<>>
    /\ xpc = "idle"
    /\ USER_WHITELISTS = <<>>
    /\ dataFile = NoFile
    /\ wpc = [w \in Cmds |-> "idle"]
    /\ wuser = [w \in Cmds |-> ""]
    /\ wname = [w \in Cmds |-> NoArg]
    /\ wreply = [w \in Cmds |-> ""]

NextExtract ==
    \/ OnNotify
    \/ OnNotifyDone

ExtractSpec == InitExtract /\ [][NextExtract]_vars


\* The whitelist command alone: any number of commands in flight, each call
\* to the server ending one way or the other.
InitWhitelist ==
    /\ InitClient
    /\ InitGlue
    /\ limits = NoClient

NextWhitelist ==
    \/ \E w \in Cmds, user_id \in Users, arg \in McNames \cup {NoArg} :
            WhitelistCmd(w, user_id, arg)
    \/ \E w \in Cmds : WhitelistCallRaises(w)
    \/ \E w \in Cmds : WhitelistCallReturns(w)

WhitelistSpec == InitWhitelist /\ [][NextWhitelist]_vars

\* ================================================================ claims
Committed(c) == crid[c] # 0

\* C1: the ids call() assigns are pairwise distinct and each is larger than
\* every id assigned before it (commit order is the order of the steps that
\* take the lock), and no step of the client, a reconnect, a timeout, a
\* failed send and stop() included, resets or lowers the id counter.
C1_IdsIncrease ==
    [][/\ rid' >= rid
       /\ \A c \in Calls :
            (~Committed(c) /\ Committed(c)') =>
                /\ crid'[c] = rid'
                /\ \A d \in Calls \ {c} : Committed(d) => crid'[c] > crid[d]
       /\ \A c \in Calls : Committed(c) => crid'[c] = crid[c]]_vars

\* C1 witness: two calls hold ids, the second assigned after a reconnect (its
\* socket is open while the first call's send failed on a closed one).
C1_Witness ==
    \E c, d \in Calls :
        /\ crid[c] = 1 /\ crid[d] = 2
        /\ cres[c] = ResSendClosed
        /\ cpc[d] = "await"
        /\ startCalls = -1

\* C2: a call that timed out has left no entry for its id in the table.
C2_TimeoutLeavesNoEntry ==
    \A c \in Calls : cres[c] = ResTimeout => crid[c] \notin DOMAIN pending

\* C3: when a receive loop ends (on a close in order, a broken connection or
\* an error), every future of the table that was not done is failed with
\* ConnectionClosed, and the table is empty right after.
C3_DropFailsAll ==
    [][\A t \in Tasks :
         (tpc[t] = "recv" /\ tpc'[t] # "recv") =>
            /\ pending' = <<>>
            /\ \A k \in DOMAIN pending :
                 ~FutDone(fut[pending[k]]) => fut'[pending[k]] = FutConnectionClosed]_vars

\* C3 witness: two calls were pending when the connection dropped, both
\* raised ConnectionClosed out of their futures, and the table is empty.
C3_Witness ==
    /\ pending = <<>>
    /\ \E c, d \in Calls :
        /\ c # d
        /\ cres[c] = FutConnectionClosed
        /\ cres[d] = FutConnectionClosed

\* C4: stop(), called in any state of the connection manager, returns in
\* the end (unless start() is called again before it does), and by then the
\* reconnect loop has exited and no call is left pending.
C4_StopReturns ==
    [](stopPc # "idle" =>
         <>(running \/ (stopPc = "idle" /\ LiveTasks = {} /\ pending = <<>>)))

Malformed == {[kind |-> "invalid"], [kind |-> "array"]}

\* C5: a malformed message (text that is no JSON, or JSON that is no object)
\* is dropped: the receive loop goes on, the connection stays as it is and
\* the pending requests stay pending.
C5_MalformedDropped ==
    [][\A t \in Tasks, raw \in Malformed :
         RecvMessage(t, raw) =>
            /\ tpc'[t] = "recv"
            /\ sock'[t] = sock[t]
            /\ pending' = pending
            /\ fut' = fut]_vars

\* C6: a _run task goes to a connection attempt only from its creation, from
\* the retry delay or from a connection closed in order, never straight from
\* a failure (a connection that broke, an error of the receive loop).
C6_DelayBeforeRetry ==
    [][\A t \in Tasks :
         (tpc[t] # "connecting" /\ tpc'[t] = "connecting") =>
            \/ tpc[t] \in {"created", "sleep"}
            \/ tpc[t] = "aexit" /\ ~exc[t] /\ sock[t] # "closed_err"]_vars

Failed(t) ==
    \/ tpc[t] \in {"sleep", "aexit"}
    \/ tpc[t] = "recv" /\ sock[t] # "open"

\* C7: no _run task ends while the running flag is set, and after every
\* failure (a failed connect, a closed or broken connection, an error of the
\* receive loop) the task makes a new connection attempt, unless the flag is
\* cleared first.
C7_RetriesForever ==
    /\ [][\A t \in Tasks : (tpc[t] # "none" /\ tpc'[t] = "none") => ~running]_vars
    /\ \A t \in Tasks : [](Failed(t) => <>(tpc[t] = "connecting" \/ ~running))

\* C7 witness: stop() was never called, a connection was lost, and the task
\* is connecting again.
C7_Witness ==
    \E t \in Tasks :
        /\ tpc[t] = "connecting"
        /\ ws = ClosedRef
        /\ running
        /\ startCalls >= 1

\* C8: a start() while the client runs changes nothing, and after any number
\* of start() calls with no stop() there is exactly one _run task.
C8_StartIdempotent ==
    /\ [](startCalls >= 1 => running /\ Cardinality(LiveTasks) = 1)
    /\ [][(running /\ startCalls' > startCalls) => UNCHANGED clientVars]_vars

\* C8 witness: start() was called twice with no stop(), and one task runs.
C8_Witness ==
    /\ startCalls = 2
    /\ Cardinality(LiveTasks) = 1
    /\ \E t \in Tasks : tpc[t] = "recv"

Object(o) == [kind |-> "object", obj |-> o]

\* C9: a message whose id has an entry in the table with a future that is
\* not done completes that future and removes the entry: with an error
\* field the call raises RuntimeError carrying the value of the field as it
\* came, else it returns the value of the result field (null when there is
\* none); every other entry and future stays as it is, and a call awaiting
\* its future returns or raises what the future holds.
C9_ResponseCompletes ==
    [][/\ \A t \in Tasks, o \in Responses :
            (/\ o.id \in DOMAIN pending
             /\ ~FutDone(fut[pending[o.id]])
             /\ RecvMessage(t, Object(o))) =>
                LET c == pending[o.id] IN
                /\ fut'[c] = IF "error" \in DOMAIN o
                             THEN [st |-> "RuntimeError", val |-> o.error]
                             ELSE IF "result" \in DOMAIN o
                                  THEN [st |-> "result", val |-> o.result]
                                  ELSE [st |-> "result", val |-> JsonNull]
                /\ DOMAIN pending' = DOMAIN pending \ {o.id}
                /\ \A k \in DOMAIN pending' : pending'[k] = pending[k]
                /\ \A d \in Calls \ {c} : fut'[d] = fut[d]
       /\ \A c \in Calls :
            (cpc[c] = "await" /\ cpc'[c] = "done"
                /\ fut[c].st \in {"result", "RuntimeError"}) => cres'[c] = fut[c]]_vars

\* C9 witness: one call raised RuntimeError with the payload of the error
\* response and its entry is gone, while another call is still pending.
C9_Witness ==
    \E c, d \in Calls :
        /\ c # d
        /\ cres[c] = [st |-> "RuntimeError", val |-> "e1"]
        /\ crid[c] \notin DOMAIN pending
        /\ cpc[d] = "await"
        /\ fut[d] = FutPending
        /\ crid[d] \in DOMAIN pending /\ pending[crid[d]] = d

Registrations(m, h) == Cardinality({i \in DOMAIN subs[m] : subs[m][i] = h})

\* C10: a notification for method M creates one handler task for every
\* registration of a handler for M (a handler appended twice is called
\* twice), each with the params of the notification ({} when it has none),
\* and no other task: none for a handler of another method, none at all for
\* a method without handlers; the receive loop goes on and no pending
\* request is touched.  (The first line names variables no turn of the
\* receive loop writes, and a step that changes nothing satisfies the rest
\* as it is; saying so first spares the evaluation.)
C10_NotificationDispatch ==
    [][(UNCHANGED <<running, sock, lock, cpc, subs, stopPc>> /\ vars' # vars) =>
        \A t \in Tasks, o \in Notifications :
         RecvMessage(t, Object(o)) =>
            /\ \A h \in Handlers, p \in ParamVals \cup {EmptyObj} :
                 CopiesIn([cb |-> h, params |-> p], htasks')
                    - CopiesIn([cb |-> h, params |-> p], htasks)
                 = IF p = (IF "params" \in DOMAIN o THEN o.params ELSE EmptyObj)
                   THEN Registrations(o.method, h) ELSE 0
            /\ tpc'[t] = "recv"
            /\ pending' = pending
            /\ fut' = fut]_vars

\* C10 witness: two handlers are registered for "joined", each runs once
\* with the params of the notification, and nothing else runs.
C10_Witness ==
    /\ subs["joined"] = <<"h1", "h2">>
    /\ subs["left"] = <<>>
    /\ htasks = SetToBag({[cb |-> "h1", params |-> "p1"], [cb |-> "h2", params |-> "p1"]})

\* C11: the subscription table changes only by on() appending one handler
\* to one method's list: no step of a connection (loss, reconnect), of a
\* call (timeout included) or of stop() changes it, and a notification
\* received after a receive loop has ended still creates a task for every
\* handler registered for its method.
C11_SubsPersist ==
    [][/\ subs' # subs =>
            \E m \in Methods, h \in Handlers : subs' = [subs EXCEPT ![m] = Append(@, h)]
       /\ (tpc' # tpc \/ sock' # sock \/ ws' # ws \/ running' # running
                \/ stopPc' # stopPc \/ cpc' # cpc \/ pending' # pending) => subs' = subs
       /\ \A t \in Tasks, o \in Notifications :
            (/\ "drop" \in seen
             /\ tpc[t] = "recv"
             /\ subs[o.method] # <<>>
             /\ RecvMessage(t, Object(o))) =>
                \A i \in DOMAIN subs[o.method] :
                    LET task == [cb |-> subs[o.method][i],
                                 params |-> Get(o, "params", EmptyObj)]
                    IN CopiesIn(task, htasks') > CopiesIn(task, htasks)]_vars

\* C11 witness: a handler was registered, a receive loop ended with it in
\* the table, stop() and start() were called, and a notification received
\* after all that runs the handler, which is still the only registration.
C11_Witness ==
    /\ "later" \in seen
    /\ startCalls = -1
    /\ running
    /\ \E h \in Handlers :
        /\ subs = [m \in Methods |-> IF m = "joined" THEN <<h>> ELSE <<>>]
        /\ BagIn([cb |-> h, params |-> "p1"], htasks)

IsPlayerObj(j) == IsDict(j) /\ "name" \in DOMAIN j.dict

\* A payload in which no player is to be found: neither a string, nor a
\* list with a player object (alone or under "player") in it, nor an object
\* with a player object under "player" or in a list under "players".
NoPlayerShape(j) ==
    \/ DOMAIN j \in {{"null"}, {"num"}}
    \/ /\ IsList(j)
       /\ \A i \in DOMAIN j.list :
            /\ ~IsPlayerObj(j.list[i])
            /\ ~(IsDict(j.list[i]) /\ "player" \in DOMAIN j.list[i].dict
                    /\ IsPlayerObj(j.list[i].dict["player"]))
    \/ /\ IsDict(j)
       /\ ~("player" \in DOMAIN j.dict /\ IsPlayerObj(j.dict["player"]))
       /\ ~("players" \in DOMAIN j.dict /\ IsList(j.dict["players"])
                /\ \E i \in DOMAIN j.dict["players"].list :
                        IsPlayerObj(j.dict["players"].list[i]))

\* C12: _extract_names returns [s] for a string s, the names of the player
\* objects of a list of player objects in their order, the name of the
\* player of an object that holds one player, ["Unknown"] for a payload in
\* which no player is to be found, and never the empty list.
C12_ExtractNames ==
    xpc # "idle" =>
        /\ IsStr(params) => names = <<params>>
        /\ (IsList(params) /\ params.list # <<>>
                /\ \A i \in DOMAIN params.list : IsPlayerObj(params.list[i])) =>
                names = [i \in DOMAIN params.list |-> params.list[i].dict["name"]]
        /\ (IsDict(params) /\ DOMAIN params.dict = {"player"}
                /\ IsPlayerObj(params.dict["player"])) =>
                names = <<params.dict["player"].dict["name"]>>
        /\ NoPlayerShape(params) => names = Unknown
        /\ names # <<>>

\* C13: when a connection becomes established, the table of pending
\* requests is empty: every entry registered before (an entry of a call that
\* waited for the lock while the connection before dropped included) is gone.
C13_NoneSurvivesReconnect ==
    [][\A t \in Tasks :
         (tpc[t] = "connecting" /\ tpc'[t] = "recv") => pending' = <<>>]_vars

\* C14: every pending request is terminated exactly once: a future that is
\* done stays as it is, an id that has left the table never comes back (the
\* only id that enters it is the new value of the id counter), and no entry
\* of a call is left in the table once the call has returned or raised.
C14_TerminatedOnce ==
    /\ [][/\ \A c \in Calls : FutDone(fut[c]) => fut'[c] = fut[c]
          /\ \A k \in DOMAIN pending' \ DOMAIN pending : k = rid' /\ rid' > rid]_vars
    /\ [](\A c \in Calls : cpc[c] = "done" => crid[c] \notin DOMAIN pending)

Writing == {c \in Calls : cpc[c] = "send"}

\* C15: at most one call is between taking its id and the end of its send,
\* and it is the call that holds the lock; while it is there no other id is
\* taken; and a send ends only for the call with the highest id taken so
\* far, every other call with an id having ended its send before: the
\* requests reach the socket one at a time, in the order of their ids.
C15_OneCriticalSection ==
    /\ [](/\ Cardinality(Writing) <= 1
          /\ \A c \in Calls : lock = c <=> c \in Writing)
    /\ [][\A c \in Calls :
            /\ (c \in Writing /\ cpc'[c] = "send") => rid' = rid
            /\ (c \in Writing /\ cpc'[c] = "await") =>
                  \A d \in Calls \ {c} :
                      Committed(d) => crid[d] < crid[c] /\ cpc[d] \in {"await", "done"}]_vars

\* C15 witness: the first call holds id 1 and is in its send, the second
\* has passed _wait_ready and is kept waiting for the lock, without an id.
C15_Witness ==
    \E c, d \in Calls :
        /\ crid[c] = 1 /\ cpc[c] = "send" /\ lock = c
        /\ cpc[d] = "wait_lock" /\ waiters = <<d>> /\ ~Committed(d)
        /\ rid = 1

\* C16: a response whose id has no entry in the table, or an entry whose
\* future is done (its call timed out), is discarded: no future changes,
\* every other entry stays as it is and none is added, no call gets an
\* outcome, and the receive loop goes on with no exception.  (The first
\* line names variables no turn of the receive loop writes, and a step that
\* changes nothing satisfies the rest as it is; saying so first spares the
\* evaluation.)
C16_StaleResponseDiscarded ==
    [][(UNCHANGED <<running, sock, lock, cpc, subs, stopPc>> /\ vars' # vars) =>
        \A t \in Tasks, o \in Responses :
         (/\ tpc[t] = "recv"
          /\ o.id \in DOMAIN pending => FutDone(fut[pending[o.id]])
          /\ RecvMessage(t, Object(o))) =>
            /\ fut' = fut
            /\ cres' = cres
            /\ DOMAIN pending \ {o.id} = DOMAIN pending'
            /\ \A k \in DOMAIN pending' : pending'[k] = pending[k]
            /\ tpc'[t] = "recv"
            /\ exc' = exc]_vars

\* C16 witness: a call timed out, a response for its id arrived after that
\* and took the entry away; the future is still the cancelled one, another
\* call is pending as before and the receive loop is waiting for a message.
C16_Witness ==
    /\ "late" \in seen
    /\ \E c, d \in Calls :
        /\ cres[c] = ResTimeout /\ fut[c] = FutCancelled
        /\ crid[c] \notin DOMAIN pending
        /\ cpc[d] = "await" /\ fut[d] = FutPending
        /\ crid[d] \in DOMAIN pending /\ pending[crid[d]] = d
    /\ \E t \in Tasks : tpc[t] = "recv" /\ sock[t] = "open"

\* C17: while handler tasks run (for as long as they run), the receive loop
\* takes the next message: every response, and every notification whose
\* handlers the bound on running tasks has room for; and the end of a
\* handler task, by return or by exception, changes no future, no entry of
\* the table, no outcome of a call and nothing of the receive loop.
C17_HandlersIndependent ==
    /\ [](\A t \in Tasks :
            (tpc[t] = "recv" /\ htasks # EmptyBag) =>
                /\ \A o \in Responses : ENABLED RecvMessage(t, Object(o))
                /\ \A o \in Notifications :
                     BagCardinality(htasks (+) Spawned(o)) <= MaxHTasks =>
                        ENABLED RecvMessage(t, Object(o)))
    /\ [][BagCardinality(htasks') < BagCardinality(htasks) =>
            UNCHANGED <<tpc, sock, exc, pending, fut, cres, cpc>>]_vars

\* C17 witness: a response completed the future of a pending call while a
\* handler task was running, the call has returned its result, a handler
\* task is running and the receive loop waits for the next message.
C17_Witness ==
    /\ "busy" \in seen
    /\ htasks # EmptyBag
    /\ \E c \in Calls : cres[c] = FutResult("r1")
    /\ \E t \in Tasks : tpc[t] = "recv"

\* C18: at any time there is at most one _run task and at most one open
\* socket, whatever the order of the start() and stop() calls.
C18_OneLoopOneSocket ==
    /\ Cardinality(LiveTasks) <= 1
    /\ Cardinality(OpenSockets) <= 1

\* C19: the set of names recorded for a user never has more than
\* WHITELIST_LIMIT names, however the whitelist commands interleave.
C19_WhitelistLimit ==
    \A u \in DOMAIN USER_WHITELISTS : Cardinality(USER_WHITELISTS[u]) <= WHITELIST_LIMIT

====
